---- MODULE Spec2Model ----
(***************************************************************************)
(* gfs-update (src/server/gfs-update.js): downloads GFS products, extracts *)
(* layers with the grib2json decoder and publishes them to S3.             *)
(*                                                                         *)
(* Time is counted in units of three hours.  A cycle is identified by its  *)
(* reference time, a product by <<cycle, forecast offset>>, a layer by     *)
(* recipe and product.  Product instances of a run are <<i, j>> (i-th      *)
(* cycle task, j-th forecast argument), layer instances <<i, j, r>>, the   *)
(* alias layers of copyCurrent <<0, 0, r>>.                                *)
(*                                                                         *)
(* One action is one event-loop handler.  The handlers that run from the   *)
(* promise queue (Internal) run before the next I/O event is taken.        *)
(***************************************************************************)
EXTENDS Integers, Sequences, FiniteSets, TLC

VARIABLES
    cfg,        \* process arguments and the state the run starts from
    run,        \* number of the current run of the program
    faults,     \* external failures still allowed to happen
    top,        \* position of the top-level promise chain (lines 358-361)
    servers,    \* var servers (line 77)
    grib,       \* products with a file under GRIB_HOME
    layerFile,  \* content of the files under LAYER_HOME, by layer path
    remote,     \* objects of the S3 bucket, by key
    dl,         \* download(product) calls, by product instance
    ex,         \* extractLayer(layer) calls, by layer instance
    pu,         \* pushLayer(layer) calls, by layer instance
    cyc,        \* processCycle(cycle) promises, by cycle task
    cp,         \* alias copies of copyCurrent, by recipe
    gDl,        \* guard.n of download_throttled
    gEx,        \* guard.n of extractLayer_throttled
    gPu,        \* guard.n of pushLayer_throttled
    found,      \* the product copyCurrent resolved from the header it read
    fetched,    \* history: best outcome of the settled fetches of a product
    putLog      \* history: the uploads made

vars == <<cfg, run, faults, top, servers, grib, layerFile, remote, dl, ex, pu,
          cyc, cp, gDl, gEx, gPu, found, fetched, putLog>>

----------------------------------------------------------------------------
\* Bounds of the model

\* number of runs of the program over the same directories
MaxRuns == 2
\* number of layer recipes in the scenarios that vary it (LAYER_RECIPES
\* declares seven)
NumRecipes == 2
\* external failures (bad status, transport error, decoder failure or empty
\* output, S3 failure) per behaviour, where a scenario allows failures
MaxFaults == 1

----------------------------------------------------------------------------
\* Program constants

NOMADS == "NOMADS"
NCEP == "NCEP"
NoServer == "none"
None == 0 - 1

\* var servers = [gfs.servers.NOMADS, gfs.servers.NCEP]
InitServers == <<NOMADS, NCEP>>

\* guard.n(servers.length), evaluated once at start-up
DownloadSlots == Len(InitServers)
\* a throttle one slot wider than guard.n(2)
ExtractSlotsWider == 2 + 1

\* guard.n(2)
ExtractSlots == 2
\* guard.n(8)
PushSlots == 8
\* result.statusCode >= 300
FailureStatus == 300

\* Object.keys(LAYER_RECIPES), as many as the scenario has; the last one
\* is wi1000
Recipes == 1..cfg.nr
wi1000 == cfg.nr

\* hours between cycles, and the age bound of copyCurrent, in 3 h units
CyclePeriod == 2
ThreeDays == 24

Max(a, b) == IF a >= b THEN a ELSE b

----------------------------------------------------------------------------
\* gfs.js: cycles, products, layers and their paths

\* gfs.cycle(date): the cycle on the grid at or before date
Cycle(t) == t - (t % CyclePeriod)

\* product.date(): validity time
ProductDate(p) == p[1] + p[2]

\* layer.path(LAYER_HOME): dated by the validity time, or the alias path
LayerPath(r, p, isCurrent) ==
    IF isCurrent THEN [recipe |-> r, v |-> 0, current |-> TRUE]
    ELSE [recipe |-> r, v |-> ProductDate(p), current |-> FALSE]

\* a layer file holds records whose header names refTime and forecastTime
NoFile == [ref |-> None, fh |-> 0]
FileOf(p) == [ref |-> p[1], fh |-> p[2]]
NoObject == [exists |-> FALSE, tag |-> None, body |-> NoFile]

----------------------------------------------------------------------------
\* processCycles: the cycles of the window, newest first

\* a loop that stops one cycle early
RECURSIVE CyclesFromExclusive(_, _)
CyclesFromExclusive(c, stop) ==
    IF c > stop THEN <<c>> \o CyclesFromExclusive(c - CyclePeriod, stop)
    ELSE <<>>

RECURSIVE CyclesFrom(_, _)
CyclesFrom(c, stop) ==
    IF c >= stop THEN <<c>> \o CyclesFrom(c - CyclePeriod, stop)
    ELSE <<>>

CycleSeq == CyclesFrom(Cycle(cfg.from), Cycle(cfg.until))
NCycles == Len(CycleSeq)

ProdIds == { <<i, j>> : i \in 1..NCycles, j \in 1..Len(cfg.forecasts) }
LayerIds == { <<i, j, r>> : i \in 1..NCycles, j \in 1..Len(cfg.forecasts), r \in Recipes }
AliasIds == { <<0, 0, r>> : r \in Recipes }
PushIds == LayerIds \cup AliasIds

\* gfs.product(type, cycle, forecastHour)
Prod(p) == <<CycleSeq[p[1]], cfg.forecasts[p[2]]>>

ProdsOfCycle(i) == { p \in ProdIds : p[1] = i }
LayersOfCycle(i) == { l \in LayerIds : l[1] = i }

\* the order in which processCycle maps over products and recipes
RECURSIVE SeqOfProds(_, _)
SeqOfProds(i, j) ==
    IF j > Len(cfg.forecasts) THEN <<>> ELSE <<(<<i, j>>)>> \o SeqOfProds(i, j + 1)

RECURSIVE SeqOfAllProds(_)
SeqOfAllProds(i) ==
    IF i > NCycles THEN <<>> ELSE SeqOfProds(i, 1) \o SeqOfAllProds(i + 1)

RECURSIVE SeqOfLayers(_, _, _)
SeqOfLayers(i, j, r) ==
    IF j > Len(cfg.forecasts) THEN <<>>
    ELSE IF r > cfg.nr THEN SeqOfLayers(i, j + 1, 1)
    ELSE <<(<<i, j, r>>)>> \o SeqOfLayers(i, j, r + 1)

----------------------------------------------------------------------------
\* when/guard: guard.n(allowed)

NewGuard == [count |-> 0, waiting |-> <<>>]

\* enter(): whether the caller gets its slot at once
GuardAdmits(g, allowed) == g.count < allowed

\* enter() for the calls of one when.map, in order; adm collects the calls
\* that got a slot
RECURSIVE EnterAll(_, _, _, _)
EnterAll(g, allowed, jobs, adm) ==
    IF jobs = <<>> THEN [g |-> g, adm |-> adm]
    ELSE LET j == Head(jobs) IN
         IF GuardAdmits(g, allowed)
         THEN EnterAll([count |-> g.count + 1, waiting |-> g.waiting],
                       allowed, Tail(jobs), adm \cup {j})
         ELSE EnterAll([count |-> g.count + 1, waiting |-> Append(g.waiting, j)],
                       allowed, Tail(jobs), adm)

\* exit(): the slot is given back and the first waiter, if any, gets it
GuardExit(g) ==
    [count |-> Max(g.count - 1, 0),
     waiting |-> IF g.waiting = <<>> THEN <<>> ELSE Tail(g.waiting)]

Released(g) == IF g.waiting = <<>> THEN {} ELSE {Head(g.waiting)}

----------------------------------------------------------------------------
\* The runs explored.  A scenario gives the process arguments (from, until,
\* forecasts), the wall-clock time of copyCurrent (now), what earlier runs
\* left behind (preGrib: the products' files; preLayer / preRemote: the
\* cycle whose layers are on disk / in the bucket, None for none; tagged:
\* whether the objects carry a reference-time), the number of recipes, of
\* external failures that may happen and of runs.

\* one cycle at time 2 with the product of forecast 0, a first run
Plain ==
    [from |-> 2, until |-> 2, forecasts |-> <<0>>, now |-> 2, nr |-> NumRecipes,
     preGrib |-> FALSE, preLayer |-> None, preRemote |-> None, tagged |-> TRUE,
     budget |-> 0, runs |-> MaxRuns]

FirstRuns == { [Plain EXCEPT !.budget = b] : b \in 0..MaxFaults }

\* two cycles whose products (4, 0) and (2, 2) have the same validity time
Overlapping ==
    { [Plain EXCEPT !.from = 4, !.forecasts = <<0, 2>>, !.now = 4, !.nr = 1,
                    !.runs = 1] }

\* two products with all their layers, and two cycles, one failure allowed
Siblings ==
    { [Plain EXCEPT !.forecasts = <<0, 1>>, !.budget = 1, !.runs = 1],
      [Plain EXCEPT !.from = 4, !.now = 4, !.nr = 1, !.budget = 1, !.runs = 1] }

\* three products of one cycle, one failure allowed
Triple ==
    { [Plain EXCEPT !.forecasts = <<0, 1, 2>>, !.nr = 1, !.budget = 1, !.runs = 1] }

\* a run that finds everything in place: five products, their files, their
\* layers and their objects
UpToDate ==
    { [Plain EXCEPT !.forecasts = <<0, 1, 2, 3, 4>>, !.preGrib = TRUE,
                    !.preLayer = 2, !.preRemote = 2, !.runs = 1] }

\* the product (2, 2) where earlier runs for the cycles 0, 2 or 4 left the
\* layer of its validity time 4 on disk or in the bucket
Leftovers ==
    { [Plain EXCEPT !.forecasts = <<2>>, !.now = 4, !.nr = 1, !.runs = 1,
                    !.preGrib = g, !.preLayer = l, !.preRemote = r, !.tagged = t,
                    !.budget = b] :
        g \in BOOLEAN, l \in {None, 0, 2, 4}, r \in {None, 0, 2, 4},
        t \in BOOLEAN, b \in 0..MaxFaults }

\* other windows and wall-clock times: no cycle at all (until after from),
\* a clock between two products, a clock more than three days later
Clocks ==
    { [Plain EXCEPT !.until = 4, !.runs = 1],
      [Plain EXCEPT !.now = 3, !.runs = 1],
      [Plain EXCEPT !.now = 30, !.runs = 1] }

\* a later run at a clock three days after the layers an earlier run left,
\* or one step more
Aged ==
    { [Plain EXCEPT !.now = n, !.preLayer = 2, !.preRemote = 2, !.runs = 1] :
        n \in {2 + ThreeDays, 2 + ThreeDays + 1} }

\* windows whose ends are between two cycles: two cycles, and three
Windows ==
    { [Plain EXCEPT !.from = 5, !.until = 3, !.now = 5, !.runs = 1],
      [Plain EXCEPT !.from = 7, !.until = 2, !.now = 7, !.nr = 1, !.runs = 1] }

Scenarios ==
    FirstRuns \cup Overlapping \cup Siblings \cup UpToDate \cup Leftovers \cup Clocks
    \cup Windows \cup Aged \cup Triple

ScenarioCycles(s) == CyclesFrom(Cycle(s.from), Cycle(s.until))

ScenarioProducts(s) ==
    { <<ScenarioCycles(s)[i], s.forecasts[j]>> :
        i \in 1..Len(ScenarioCycles(s)), j \in 1..Len(s.forecasts) }

\* the layer paths of the scenario's products, and the alias paths
ScenarioPaths(s) ==
    [recipe : 1..s.nr, v : { ProductDate(p) : p \in ScenarioProducts(s) },
     current : {FALSE}]
    \cup [recipe : 1..s.nr, v : {0}, current : {TRUE}]

Paths == ScenarioPaths(cfg)

\* layer files and objects left by an earlier run that processed cycle c:
\* one per recipe and validity time of this run's products not before c
LeftBy(c, s, path) ==
    /\ c >= 0
    /\ ~path.current
    /\ path.v >= c
    /\ \E p \in ScenarioProducts(s) : ProductDate(p) = path.v

\* the earlier run also left the alias files, copies of its first layers
InitLayerFile(s) ==
    [path \in ScenarioPaths(s) |->
        IF LeftBy(s.preLayer, s, path)
        THEN [ref |-> s.preLayer, fh |-> path.v - s.preLayer]
        ELSE IF path.current /\ \E q \in ScenarioPaths(s) : LeftBy(s.preLayer, s, q)
        THEN [ref |-> s.preLayer, fh |-> 0]
        ELSE NoFile]

InitRemote(s) ==
    [path \in ScenarioPaths(s) |->
        IF LeftBy(s.preRemote, s, path)
        THEN [exists |-> TRUE, tag |-> IF s.tagged THEN s.preRemote ELSE None,
              body |-> [ref |-> s.preRemote, fh |-> path.v - s.preRemote]]
        ELSE NoObject]

NoProduct == <<None, 0>>

IdleDl == [st |-> "none", server |-> NoServer, prior |-> "none"]
NoRun == [code |-> None, records |-> 0]
IdleEx == [st |-> "none", out |-> NoRun, wrote |-> FALSE]
IdlePu == [st |-> "none", body |-> NoFile]

\* the process state at the start of a run
Fresh ==
    /\ top = "start"
    /\ servers = InitServers
    /\ dl = [p \in ProdIds |-> IdleDl]
    /\ ex = [l \in LayerIds |-> IdleEx]
    /\ pu = [l \in PushIds |-> IdlePu]
    /\ cyc = [i \in 1..NCycles |-> "none"]
    /\ cp = [r \in Recipes |-> "none"]
    /\ gDl = NewGuard
    /\ gEx = NewGuard
    /\ gPu = NewGuard
    /\ found = NoProduct

Init ==
    \E s \in Scenarios :
        /\ cfg = s
        /\ run = 1
        /\ faults = s.budget
        /\ grib = IF s.preGrib THEN ScenarioProducts(s) ELSE {}
        /\ layerFile = InitLayerFile(s)
        /\ remote = InitRemote(s)
        /\ fetched = [p \in ScenarioProducts(s) |-> "none"]
        /\ putLog = {}
        /\ Fresh

----------------------------------------------------------------------------
\* Job states

DlFulfilled == {"existed", "fetched", "failed"}
DlSettled == DlFulfilled \cup {"rejected"}
DlInFlight == {"admitted", "delay", "transfer"}

ExLayer == {"built", "skipped"}
ExNull == {"missing", "empty"}
ExFulfilled == ExLayer \cup ExNull
ExSettled == ExFulfilled \cup {"rejected"}
ExInFlight == {"admitted", "decoding"}

PuFulfilled == {"null", "nofile", "unchanged", "uploaded"}
PuSettled == PuFulfilled \cup {"rejected"}
PuInFlight == {"admitted", "head", "put"}

\* the first call of a set in call order
First(S) == CHOOSE x \in S : \A y \in S : x = y \/
    \/ x[1] < y[1]
    \/ x[1] = y[1] /\ x[2] < y[2]
    \/ x[1] = y[1] /\ x[2] = y[2] /\ Len(x) = 3 /\ x[3] < y[3]

----------------------------------------------------------------------------
\* What the promise queue still has to run

Alive == top # "crashed"

\* a stage that goes on with the first download fulfilled
DlStageDoneEarly(i) == \E p \in ProdsOfCycle(i) : dl[p].st \in DlFulfilled

DlStageDone(i) == \A p \in ProdsOfCycle(i) : dl[p].st \in DlFulfilled
DlStageFailed(i) == \E p \in ProdsOfCycle(i) : dl[p].st = "rejected"
ExStageDone(i) == \A l \in LayersOfCycle(i) : ex[l].st \in ExFulfilled
ExStageFailed(i) == \E l \in LayersOfCycle(i) : ex[l].st = "rejected"
PuStageDone(i) == \A l \in LayersOfCycle(i) : pu[l].st \in PuFulfilled
PuStageFailed(i) == \E l \in LayersOfCycle(i) : pu[l].st = "rejected"

\* a chain that goes on with the first cycle task fulfilled
SomeCycleFulfilled == \E i \in 1..NCycles : cyc[i] = "fulfilled"

AllCyclesFulfilled == \A i \in 1..NCycles : cyc[i] = "fulfilled"
SomeCycleRejected == \E i \in 1..NCycles : cyc[i] = "rejected"
AliasesDone == \A l \in AliasIds : pu[l].st \in PuFulfilled
AliasRejected == \E l \in AliasIds : pu[l].st = "rejected"

InternalPending ==
    \/ top = "start"
    \/ \E p \in ProdIds : dl[p].st = "admitted"
    \/ \E l \in LayerIds : ex[l].st = "admitted"
    \/ \E l \in PushIds : pu[l].st = "admitted"
    \/ \E i \in 1..NCycles :
        \/ cyc[i] = "downloading" /\ (DlStageDone(i) \/ DlStageFailed(i))
        \/ cyc[i] = "extracting" /\ (ExStageDone(i) \/ ExStageFailed(i))
        \/ cyc[i] = "pushing" /\ (PuStageDone(i) \/ PuStageFailed(i))
    \/ top = "cycles" /\ (AllCyclesFulfilled \/ SomeCycleRejected)
    \/ top = "current" /\ (AliasesDone \/ AliasRejected)

\* an I/O callback is taken only when the promise queue is empty
IOReady == Alive /\ ~InternalPending

IOPending ==
    \/ \E p \in ProdIds : dl[p].st \in {"delay", "transfer"}
    \/ \E l \in LayerIds : ex[l].st = "decoding"
    \/ \E l \in PushIds : pu[l].st \in {"head", "put"}
    \/ \E r \in Recipes : cp[r] = "copying"

----------------------------------------------------------------------------
\* processCycles (lines 298-307) and the first half of processCycle: one
\* task per cycle of the window, each mapping download_throttled over its
\* products (lines 279-289)

ProcessCycles ==
    /\ top = "start"
    /\ LET e == EnterAll(gDl, DownloadSlots, SeqOfAllProds(1), {}) IN
        /\ gDl' = e.g
        /\ dl' = [p \in ProdIds |->
                    [dl[p] EXCEPT !.st = IF p \in e.adm THEN "admitted" ELSE "waiting"]]
    /\ cyc' = [i \in 1..NCycles |-> "downloading"]
    /\ top' = "cycles"
    /\ UNCHANGED <<cfg, run, faults, servers, grib, layerFile, remote, ex, pu, cp,
                   gEx, gPu, found, fetched, putLog>>

----------------------------------------------------------------------------
\* download (lines 132-167) under download_throttled (line 169)

\* a download that does not look for the file
ProductExistsUnchecked(prod) == FALSE

\* fs.existsSync(localPath)
ProductExists(prod) == prod \in grib

\* nextServer (lines 113-119)
NextServer == IF Len(servers) = 0 THEN NOMADS ELSE servers[Len(servers)]
ServersAfterNext ==
    IF Len(servers) = 0 THEN servers ELSE SubSeq(servers, 1, Len(servers) - 1)

\* releaseServer (lines 121-123)
ReleaseServer(server) == Append(servers, server)

\* the guard's exit after a download call settled as rec
DlAfterSettle(p, rec) ==
    [q \in ProdIds |->
        IF q = p THEN rec
        ELSE IF q \in Released(gDl) THEN [dl[q] EXCEPT !.st = "admitted"]
        ELSE dl[q]]

FetchedAfter(prod, inPlace) ==
    [fetched EXCEPT ![prod] =
        IF inPlace THEN "ok" ELSE IF @ = "none" THEN "failed" ELSE @]

\* download(product) is called with the slot it was given
DownloadCall ==
    /\ Alive
    /\ \E q \in ProdIds : dl[q].st = "admitted"
    /\ LET p == First({q \in ProdIds : dl[q].st = "admitted"})
           prior == fetched[Prod(p)]
       IN IF ProductExists(Prod(p))
          THEN /\ dl' = DlAfterSettle(p, [st |-> "existed", server |-> NoServer,
                                          prior |-> prior])
               /\ gDl' = GuardExit(gDl)
               /\ fetched' = FetchedAfter(Prod(p), TRUE)
               /\ UNCHANGED servers
          ELSE /\ dl' = [dl EXCEPT ![p] = [st |-> "delay", server |-> NextServer,
                                           prior |-> prior]]
               /\ servers' = ServersAfterNext
               /\ UNCHANGED <<gDl, fetched>>
    /\ UNCHANGED <<cfg, run, faults, top, grib, layerFile, remote, ex, pu, cyc, cp,
                   gEx, gPu, found, putLog>>

\* delay(10 * 1000) elapsed: tool.download starts the transfer
DelayElapsed(p) ==
    /\ IOReady
    /\ dl[p].st = "delay"
    /\ dl' = [dl EXCEPT ![p].st = "transfer"]
    /\ UNCHANGED <<cfg, run, faults, top, servers, grib, layerFile, remote, ex, pu,
                   cyc, cp, gDl, gEx, gPu, found, fetched, putLog>>

StatusCodes == {200, 299, 300, 404}

\* result.statusCode >= 300
DownloadFailed(status) == status >= FailureStatus

\* a download that moves the temporary file into place whatever the status
GribAfterAnyStatus(prod, status) == grib \cup {prod}

\* mkdirp.sync, fs.renameSync(tempStream.path, localPath), reached only
\* with a status below 300 (lines 149-154)
GribAfter(prod, status) ==
    IF DownloadFailed(status) THEN grib ELSE grib \cup {prod}

\* tool.download resolved with a response (lines 147-158)
TransferDone(p, status) ==
    /\ IOReady
    /\ dl[p].st = "transfer"
    /\ DownloadFailed(status) => faults > 0
    /\ faults' = IF DownloadFailed(status) THEN faults - 1 ELSE faults
    /\ servers' = ReleaseServer(dl[p].server)
    /\ grib' = GribAfter(Prod(p), status)
    /\ dl' = DlAfterSettle(p, [dl[p] EXCEPT
                !.st = IF DownloadFailed(status) THEN "failed" ELSE "fetched"])
    /\ gDl' = GuardExit(gDl)
    /\ fetched' = FetchedAfter(Prod(p), ~DownloadFailed(status))
    /\ UNCHANGED <<cfg, run, top, layerFile, remote, ex, pu, cyc, cp, gEx, gPu,
                   found, putLog>>

\* tool.download rejected (transport error): download passes null as the
\* rejection handler (line 159), so the rejection goes to the caller
TransferError(p) ==
    /\ IOReady
    /\ dl[p].st = "transfer"
    /\ faults > 0
    /\ faults' = faults - 1
    /\ dl' = DlAfterSettle(p, [dl[p] EXCEPT !.st = "rejected"])
    /\ gDl' = GuardExit(gDl)
    /\ fetched' = FetchedAfter(Prod(p), FALSE)
    /\ UNCHANGED <<cfg, run, top, servers, grib, layerFile, remote, ex, pu, cyc, cp,
                   gEx, gPu, found, putLog>>

----------------------------------------------------------------------------
\* processCycle, second stage: once every download of the cycle fulfilled,
\* extractLayers maps extractLayer_throttled over the recipes of every
\* product (lines 242-247, 290)

ExtractLayers(i) ==
    /\ Alive
    /\ cyc[i] = "downloading"
    /\ DlStageDone(i)
    /\ LET e == EnterAll(gEx, ExtractSlots, SeqOfLayers(i, 1, 1), {}) IN
        /\ gEx' = e.g
        /\ ex' = [l \in LayerIds |->
                    IF l[1] # i THEN ex[l]
                    ELSE [ex[l] EXCEPT !.st = IF l \in e.adm THEN "admitted" ELSE "waiting"]]
    /\ cyc' = [cyc EXCEPT ![i] = "extracting"]
    /\ UNCHANGED <<cfg, run, faults, top, servers, grib, layerFile, remote, dl, pu,
                   cp, gDl, gPu, found, fetched, putLog>>

\* layer.product of a layer instance, and the paths and times derived of it
LayerProduct(l) == IF l \in AliasIds THEN found ELSE Prod(<<l[1], l[2]>>)
IsCurrent(l) == l \in AliasIds
PathOf(l) == LayerPath(l[3], LayerProduct(l), IsCurrent(l))
\* layer.product.cycle.date()
RefTime(l) == LayerProduct(l)[1]

\* fs.existsSync(layerPath)
LayerExists(path) == layerFile[path] # NoFile

\* the staleness check with > for >=
NewerLayerExistsStrict(l) == layerFile[PathOf(l)].ref > RefTime(l)

\* new Date(refTime) >= layer.product.cycle.date() (line 210)
NewerLayerExists(l) == layerFile[PathOf(l)].ref >= RefTime(l)

ExAfterSettle(l, rec) ==
    [k \in LayerIds |->
        IF k = l THEN rec
        ELSE IF k \in Released(gEx) THEN [ex[k] EXCEPT !.st = "admitted"]
        ELSE ex[k]]

\* extractLayer(layer) up to the decoder invocation (lines 199-220)
ExtractCall ==
    /\ Alive
    /\ \E k \in LayerIds : ex[k].st = "admitted"
    /\ LET l == First({k \in LayerIds : ex[k].st = "admitted"}) IN
        IF ~ProductExists(LayerProduct(l))
        THEN /\ ex' = ExAfterSettle(l, [ex[l] EXCEPT !.st = "missing"])
             /\ gEx' = GuardExit(gEx)
        ELSE IF LayerExists(PathOf(l)) /\ NewerLayerExists(l)
        THEN /\ ex' = ExAfterSettle(l, [ex[l] EXCEPT !.st = "skipped"])
             /\ gEx' = GuardExit(gEx)
        ELSE /\ ex' = [ex EXCEPT ![l].st = "decoding"]
             /\ UNCHANGED gEx
    /\ UNCHANGED <<cfg, run, faults, top, servers, grib, layerFile, remote, dl, pu,
                   cyc, cp, gDl, gPu, found, fetched, putLog>>

\* what a grib2json run gives: a non-zero return code, or code 0 with the
\* number of records it wrote
DecoderResults == { [code |-> 1, records |-> 0],
                    [code |-> 0, records |-> 0],
                    [code |-> 0, records |-> 1] }

\* processLayer without the test of data.length
ProcessLayerNoTest(l, out) == FileOf(LayerProduct(l))

\* processLayer (lines 177-197): null when there are no records
ProcessLayer(l, out) == IF out.records = 0 THEN NoFile ELSE FileOf(LayerProduct(l))

\* tool.grib2json resolved (lines 220-237)
DecoderExit(l, out) ==
    /\ IOReady
    /\ ex[l].st = "decoding"
    /\ LET anomaly == out.code # 0 \/ out.records = 0
           data == ProcessLayer(l, out)
       IN /\ anomaly => faults > 0
          /\ faults' = IF anomaly THEN faults - 1 ELSE faults
          /\ IF out.code # 0
             THEN /\ ex' = ExAfterSettle(l, [st |-> "rejected", out |-> out,
                                              wrote |-> FALSE])
                  /\ UNCHANGED layerFile
             ELSE IF data = NoFile
             THEN /\ ex' = ExAfterSettle(l, [st |-> "empty", out |-> out,
                                              wrote |-> FALSE])
                  /\ UNCHANGED layerFile
             ELSE /\ ex' = ExAfterSettle(l, [st |-> "built", out |-> out,
                                              wrote |-> TRUE])
                  /\ layerFile' = [layerFile EXCEPT ![PathOf(l)] = data]
    /\ gEx' = GuardExit(gEx)
    /\ UNCHANGED <<cfg, run, top, servers, grib, remote, dl, pu, cyc, cp, gDl, gPu,
                   found, fetched, putLog>>

----------------------------------------------------------------------------
\* processCycle, third stage: once every extraction of the cycle fulfilled,
\* pushLayers maps pushLayer_throttled over the results (lines 275-277, 291)

PushLayers(i) ==
    /\ Alive
    /\ cyc[i] = "extracting"
    /\ ExStageDone(i)
    /\ LET e == EnterAll(gPu, PushSlots, SeqOfLayers(i, 1, 1), {}) IN
        /\ gPu' = e.g
        /\ pu' = [l \in PushIds |->
                    IF l[1] # i THEN pu[l]
                    ELSE [pu[l] EXCEPT !.st = IF l \in e.adm THEN "admitted" ELSE "waiting"]]
    /\ cyc' = [cyc EXCEPT ![i] = "pushing"]
    /\ UNCHANGED <<cfg, run, faults, top, servers, grib, layerFile, remote, dl, ex,
                   cp, gDl, gEx, found, fetched, putLog>>

\* the argument pushLayer gets: the layer, or null
HasLayer(l) == l \in AliasIds \/ ex[l].st \in ExLayer

\* isNewerThan(existing) (lines 262-265)
IsNewerThan(existing, l) ==
    \/ existing.tag < 0
    \/ existing.tag < RefTime(l)
    \/ IsCurrent(l)

PuAfterSettle(l, rec) ==
    [k \in PushIds |->
        IF k = l THEN rec
        ELSE IF k \in Released(gPu) THEN [pu[k] EXCEPT !.st = "admitted"]
        ELSE pu[k]]

\* pushLayer(layer) up to the call of aws.uploadFile (lines 249-267)
PushCall ==
    /\ Alive
    /\ \E k \in PushIds : pu[k].st = "admitted"
    /\ LET l == First({k \in PushIds : pu[k].st = "admitted"}) IN
        IF ~HasLayer(l)
        THEN /\ pu' = PuAfterSettle(l, [pu[l] EXCEPT !.st = "null"])
             /\ gPu' = GuardExit(gPu)
        ELSE IF ~LayerExists(PathOf(l))
        THEN /\ pu' = PuAfterSettle(l, [pu[l] EXCEPT !.st = "nofile"])
             /\ gPu' = GuardExit(gPu)
        ELSE /\ pu' = [pu EXCEPT ![l].st = "head"]
             /\ UNCHANGED gPu
    /\ UNCHANGED <<cfg, run, faults, top, servers, grib, layerFile, remote, dl, ex,
                   cyc, cp, gDl, gEx, found, fetched, putLog>>

\* aws.uploadFile got the metadata of the existing object, if any, and
\* asked the predicate: the upload starts, reading the file, or is skipped
HeadResponse(l) ==
    /\ IOReady
    /\ pu[l].st = "head"
    /\ IF IsNewerThan(remote[PathOf(l)], l)
       THEN /\ pu' = [pu EXCEPT ![l] = [st |-> "put", body |-> layerFile[PathOf(l)]]]
            /\ UNCHANGED gPu
       ELSE /\ pu' = PuAfterSettle(l, [pu[l] EXCEPT !.st = "unchanged"])
            /\ gPu' = GuardExit(gPu)
    /\ UNCHANGED <<cfg, run, faults, top, servers, grib, layerFile, remote, dl, ex,
                   cyc, cp, gDl, gEx, found, fetched, putLog>>

\* the upload completed: the object holds the file with the metadata
\* "reference-time": layer.product.cycle.date() (lines 259-261, 267-270)
PutDone(l) ==
    /\ IOReady
    /\ pu[l].st = "put"
    /\ remote' = [remote EXCEPT ![PathOf(l)] =
                    [exists |-> TRUE, tag |-> RefTime(l), body |-> pu[l].body]]
    /\ putLog' = putLog \cup
                    {[key |-> PathOf(l), over |-> remote[PathOf(l)].tag,
                      tag |-> RefTime(l), body |-> pu[l].body]}
    /\ pu' = PuAfterSettle(l, [pu[l] EXCEPT !.st = "uploaded"])
    /\ gPu' = GuardExit(gPu)
    /\ UNCHANGED <<cfg, run, faults, top, servers, grib, layerFile, dl, ex, cyc, cp,
                   gDl, gEx, found, fetched>>

\* aws.uploadFile rejected
UploadFail(l) ==
    /\ IOReady
    /\ pu[l].st \in {"head", "put"}
    /\ faults > 0
    /\ faults' = faults - 1
    /\ pu' = PuAfterSettle(l, [pu[l] EXCEPT !.st = "rejected"])
    /\ gPu' = GuardExit(gPu)
    /\ UNCHANGED <<cfg, run, top, servers, grib, layerFile, remote, dl, ex, cyc, cp,
                   gDl, gEx, found, fetched, putLog>>

\* pushed.then(...) (lines 293-295): the cycle task fulfils
BatchComplete(i) ==
    /\ Alive
    /\ cyc[i] = "pushing"
    /\ PuStageDone(i)
    /\ cyc' = [cyc EXCEPT ![i] = "fulfilled"]
    /\ UNCHANGED <<cfg, run, faults, top, servers, grib, layerFile, remote, dl, ex,
                   pu, cp, gDl, gEx, gPu, found, fetched, putLog>>

\* when.map rejects with the first rejection of a mapped call: the later
\* stages of the cycle task are not started and the task rejects
CycleRejects(i) ==
    /\ Alive
    /\ \/ cyc[i] = "downloading" /\ DlStageFailed(i)
       \/ cyc[i] = "extracting" /\ ExStageFailed(i)
       \/ cyc[i] = "pushing" /\ PuStageFailed(i)
    /\ cyc' = [cyc EXCEPT ![i] = "rejected"]
    /\ UNCHANGED <<cfg, run, faults, top, servers, grib, layerFile, remote, dl, ex,
                   pu, cp, gDl, gEx, gPu, found, fetched, putLog>>

----------------------------------------------------------------------------
\* copyCurrent (lines 309-356)

\* gfs.cycle(now).next() with forecast 0, then previous() while the product
\* date is after now (lines 316-319); previous() steps three hours back
\* a first loop that also steps back from a product dated now
RECURSIVE SkipFutureInclusive(_)
SkipFutureInclusive(v) == IF v >= cfg.now THEN SkipFutureInclusive(v - 1) ELSE v

RECURSIVE SkipFuture(_)
SkipFuture(v) == IF v > cfg.now THEN SkipFuture(v - 1) ELSE v

MostRecentNominal == SkipFuture(Cycle(cfg.now) + CyclePeriod)

\* fs.existsSync(mostRecentLayer.path(LAYER_HOME)), a wi1000 layer
RecentLayerExists(v) ==
    /\ [recipe |-> wi1000, v |-> v, current |-> FALSE] \in Paths
    /\ LayerExists([recipe |-> wi1000, v |-> v, current |-> FALSE])

\* lines 322-329: back until a layer file exists, giving up once the
\* product date is before threeDaysAgo
\* a search that gives up one step late
RECURSIVE SearchBackLate(_)
SearchBackLate(v) ==
    IF RecentLayerExists(v) THEN [ok |-> TRUE, v |-> v]
    ELSE IF v - 1 < cfg.now - ThreeDays - 1 THEN [ok |-> FALSE, v |-> v - 1]
    ELSE SearchBackLate(v - 1)

RECURSIVE SearchBack(_)
SearchBack(v) ==
    IF RecentLayerExists(v) THEN [ok |-> TRUE, v |-> v]
    ELSE IF v - 1 < cfg.now - ThreeDays THEN [ok |-> FALSE, v |-> v - 1]
    ELSE SearchBack(v - 1)

MostRecent == SearchBack(MostRecentNominal)

\* lines 332-333: the product named by the header of the layer found
HeaderProduct(v) ==
    LET header == layerFile[[recipe |-> wi1000, v |-> v, current |-> FALSE]]
    IN <<Cycle(header.ref), header.fh>>

\* processCycles(...).then(copyCurrent): every cycle task fulfilled.  The
\* alias files are unlinked and the copies started (lines 336-352)
CopyCurrent ==
    /\ top = "cycles"
    /\ AllCyclesFulfilled
    /\ IF MostRecent.ok
       THEN /\ top' = "current"
            /\ found' = HeaderProduct(MostRecent.v)
            /\ layerFile' = [path \in Paths |->
                                IF path.current THEN NoFile ELSE layerFile[path]]
            /\ cp' = [r \in Recipes |-> "copying"]
       ELSE /\ top' = "done"
            /\ UNCHANGED <<found, layerFile, cp>>
    /\ UNCHANGED <<cfg, run, faults, servers, grib, remote, dl, ex, pu, cyc, gDl,
                   gEx, gPu, fetched, putLog>>

\* the path the alias of recipe r is copied from
SrcPath(r) == LayerPath(r, found, FALSE)

\* "finish" of the copy (lines 348-350); pushLayers(layers) then calls
\* pushLayer_throttled with the alias layer (line 355)
CopyFinish(r) ==
    /\ IOReady
    /\ cp[r] = "copying"
    /\ LayerExists(SrcPath(r))
    /\ cp' = [cp EXCEPT ![r] = "done"]
    /\ layerFile' = [layerFile EXCEPT ![LayerPath(r, found, TRUE)] = layerFile[SrcPath(r)]]
    /\ LET e == EnterAll(gPu, PushSlots, <<(<<0, 0, r>>)>>, {}) IN
        /\ gPu' = e.g
        /\ pu' = [pu EXCEPT ![<<0, 0, r>>].st =
                    IF <<0, 0, r>> \in e.adm THEN "admitted" ELSE "waiting"]
    /\ UNCHANGED <<cfg, run, faults, top, servers, grib, remote, dl, ex, cyc, gDl,
                   gEx, found, fetched, putLog>>

\* the read stream of a missing source file emits "error", which nothing
\* handles: the process ends
CopyError(r) ==
    /\ IOReady
    /\ cp[r] = "copying"
    /\ ~LayerExists(SrcPath(r))
    /\ top' = "crashed"
    /\ cp' = [cp EXCEPT ![r] = "error"]
    /\ UNCHANGED <<cfg, run, faults, servers, grib, layerFile, remote, dl, ex, pu,
                   cyc, gDl, gEx, gPu, found, fetched, putLog>>

\* the promise of pushLayers(layers) fulfilled: the chain is done
CurrentDone ==
    /\ top = "current"
    /\ AliasesDone
    /\ top' = "done"
    /\ UNCHANGED <<cfg, run, faults, servers, grib, layerFile, remote, dl, ex, pu,
                   cyc, cp, gDl, gEx, gPu, found, fetched, putLog>>

\* .otherwise(tool.report) (line 360): when.all rejected with the first
\* rejected cycle task, or pushLayers(layers) rejected
Report ==
    /\ \/ top = "cycles" /\ SomeCycleRejected
       \/ top = "current" /\ AliasRejected
    /\ top' = "reported"
    /\ UNCHANGED <<cfg, run, faults, servers, grib, layerFile, remote, dl, ex, pu,
                   cyc, cp, gDl, gEx, gPu, found, fetched, putLog>>

----------------------------------------------------------------------------
\* The process ended (nothing left to run, or it crashed) and the program
\* is started again with the same arguments

Exited ==
    \/ top = "crashed"
    \/ top \in {"done", "reported"} /\ ~InternalPending /\ ~IOPending

Rerun ==
    /\ Exited
    /\ run < cfg.runs
    /\ run' = run + 1
    /\ top' = "start"
    /\ servers' = InitServers
    /\ dl' = [p \in ProdIds |-> IdleDl]
    /\ ex' = [l \in LayerIds |-> IdleEx]
    /\ pu' = [l \in PushIds |-> IdlePu]
    /\ cyc' = [i \in 1..NCycles |-> "none"]
    /\ cp' = [r \in Recipes |-> "none"]
    /\ gDl' = NewGuard
    /\ gEx' = NewGuard
    /\ gPu' = NewGuard
    /\ found' = NoProduct
    /\ UNCHANGED <<cfg, faults, grib, layerFile, remote, fetched, putLog>>

----------------------------------------------------------------------------

Next ==
    \/ ProcessCycles
    \/ DownloadCall
    \/ \E p \in ProdIds : DelayElapsed(p)
    \/ \E p \in ProdIds, status \in StatusCodes : TransferDone(p, status)
    \/ \E p \in ProdIds : TransferError(p)
    \/ \E i \in 1..NCycles : ExtractLayers(i)
    \/ ExtractCall
    \/ \E l \in LayerIds, out \in DecoderResults : DecoderExit(l, out)
    \/ \E i \in 1..NCycles : PushLayers(i)
    \/ PushCall
    \/ \E l \in PushIds : HeadResponse(l)
    \/ \E l \in PushIds : PutDone(l)
    \/ \E l \in PushIds : UploadFail(l)
    \/ \E i \in 1..NCycles : BatchComplete(i)
    \/ \E i \in 1..NCycles : CycleRejects(i)
    \/ CopyCurrent
    \/ \E r \in Recipes : CopyFinish(r)
    \/ \E r \in Recipes : CopyError(r)
    \/ CurrentDone
    \/ Report
    \/ Rerun

Spec == Init /\ [][Next]_vars

\* the event loop runs a handler whenever one is ready, and every external
\* operation in progress completes
FairSpec == Spec /\ WF_vars(Next)

----------------------------------------------------------------------------
\* Properties

DownloadsInFlight == Cardinality({ p \in ProdIds : dl[p].st \in DlInFlight })
ExtractsInFlight == Cardinality({ l \in LayerIds : ex[l].st \in ExInFlight })
PushesInFlight == Cardinality({ l \in PushIds : pu[l].st \in PuInFlight })

\* C1: in every reachable state, over the cycle tasks and copyCurrent
\* together, at most 2 download calls, at most 2 extractLayer calls and at
\* most 8 pushLayer calls are in flight.
C1_ConcurrencyBound ==
    /\ DownloadsInFlight <= 2
    /\ ExtractsInFlight <= 2
    /\ PushesInFlight <= 8

\* eight uploads in flight and a ninth pushLayer call kept waiting
C1_Witness ==
    /\ Cardinality({ l \in PushIds : pu[l].st = "head" }) = 8
    /\ gPu.waiting # <<>>

\* C2 as claimed: a download of a product called after another download of
\* that product settled finds the file, takes no server and starts no
\* transfer, whatever the outcome of the first.
C2_Original ==
    \A p \in ProdIds :
        dl[p].prior # "none" => dl[p].st = "existed" /\ dl[p].server = NoServer

\* C2 as amended: a download of a product called after a download of that
\* product settled with the file in place (found there, or transferred with
\* a status below 300) finds the file, takes no server, starts no transfer
\* and resolves with the product.
C2_Idempotent ==
    \A p \in ProdIds :
        dl[p].prior = "ok" => dl[p].st = "existed" /\ dl[p].server = NoServer

\* the second run skips the download of the file the first run fetched
C2_Witness ==
    \E p \in ProdIds :
        /\ run > 1
        /\ ~cfg.preGrib
        /\ dl[p].prior = "ok"
        /\ dl[p].st = "existed"

\* C3: every download that ends in failure, by a status >= 300 or by a
\* transport error, resolves with the product and never rejects.
C3_FailedFetchResolves ==
    \A p \in ProdIds : dl[p].st # "rejected"

\* C4: every server a download took is given back when the download
\* settled: with no transfer pending the pool holds the hosts it was
\* created with.
C4_PoolRestored ==
    (\A p \in ProdIds : dl[p].st \notin {"delay", "transfer"}) =>
        /\ Len(servers) = Len(InitServers)
        /\ { servers[k] : k \in 1..Len(servers) }
            = { InitServers[k] : k \in 1..Len(InitServers) }

\* C5: an upload of a layer that is not current never replaces an object
\* whose reference-time is newer than or equal to the layer's; pushLayer of
\* a current layer, or on an object without reference-time, always uploads.
C5_ConditionalPublish ==
    [][\A l \in PushIds :
        /\ (pu[l].st = "head" /\ pu'[l].st \in {"put", "unchanged"}
                /\ (IsCurrent(l) \/ remote[PathOf(l)].tag < 0))
            => pu'[l].st = "put"
        /\ (pu[l].st = "put" /\ pu'[l].st = "uploaded" /\ ~IsCurrent(l))
            => remote[PathOf(l)].tag < RefTime(l)]_vars

\* C6 as claimed: extractLayer called where a layer file exists skips when
\* the file's reference time is >= the layer's, and runs the decoder and
\* rewrites the file when the layer's reference time is >= the file's.
C6_Original ==
    [][\A l \in LayerIds :
        (ex[l].st = "admitted" /\ ex'[l].st # "admitted"
            /\ ProductExists(LayerProduct(l)) /\ LayerExists(PathOf(l)))
        => /\ layerFile[PathOf(l)].ref >= RefTime(l)
                => ex'[l].st = "skipped" /\ layerFile' = layerFile
           /\ RefTime(l) >= layerFile[PathOf(l)].ref
                => ex'[l].st = "decoding"]_vars

\* C6 as amended: extractLayer called where a layer file exists (and the
\* product file too) skips, leaving the file, when the file's reference
\* time is >= the layer's; it runs the decoder when the layer's reference
\* time is strictly greater, and the file is rewritten with the layer's
\* reference time when the decoder exits with code 0 and records.
C6_Staleness ==
    [][\A l \in LayerIds :
        /\ (ex[l].st = "admitted" /\ ex'[l].st # "admitted"
                /\ ProductExists(LayerProduct(l)) /\ LayerExists(PathOf(l)))
            => /\ layerFile[PathOf(l)].ref >= RefTime(l)
                    => ex'[l].st = "skipped" /\ layerFile' = layerFile
               /\ RefTime(l) > layerFile[PathOf(l)].ref
                    => ex'[l].st = "decoding"
        /\ (ex[l].st = "decoding" /\ ex'[l].st # "decoding")
            => IF ex'[l].out.code = 0 /\ ex'[l].out.records > 0
               THEN layerFile'[PathOf(l)] = FileOf(LayerProduct(l))
               ELSE layerFile' = layerFile]_vars

\* the layer left by the older cycle 0 was replaced by the run for cycle 2
C6_Witness ==
    \E l \in LayerIds :
        /\ cfg.preLayer >= 0
        /\ cfg.preLayer < RefTime(l)
        /\ ex[l].st = "built"
        /\ layerFile[PathOf(l)].ref = RefTime(l)

ZeroRecords(l) == ex[l].out.code = 0 /\ ex[l].out.records = 0

\* C7: when the decoder output of a layer has zero records, extractLayer
\* resolves with null and writes no file, and the pushLayer that gets the
\* null uploads nothing and resolves with null.
C7_EmptyResult ==
    \A l \in LayerIds :
        ZeroRecords(l) =>
            /\ ex[l].st = "empty"
            /\ ~ex[l].wrote
            /\ pu[l].st \in {"none", "waiting", "admitted", "null"}

\* pushLayer resolved with null for a layer whose decoder output was empty
C7_Witness ==
    \E l \in LayerIds : ZeroRecords(l) /\ pu[l].st = "null"

\* C8: no extractLayer of a product's layers is called before the download
\* of that product settled, and no pushLayer of a layer before its
\* extractLayer settled.
C8_StageOrder ==
    \A l \in LayerIds :
        /\ ex[l].st # "none" => dl[<<l[1], l[2]>>].st \in DlSettled
        /\ pu[l].st # "none" => ex[l].st \in ExSettled

\* a layer built from a fetched product is being uploaded while a layer of
\* another cycle is still in extraction
C8_Witness ==
    \E l, k \in LayerIds :
        /\ dl[<<l[1], l[2]>>].st = "fetched"
        /\ ex[l].st = "built"
        /\ pu[l].st = "put"
        /\ k[1] # l[1]
        /\ ex[k].st \in {"waiting", "decoding"}

CycleWorkPending ==
    \/ \E p \in ProdIds : dl[p].st \in {"waiting"} \cup DlInFlight
    \/ \E l \in LayerIds : ex[l].st \in {"waiting"} \cup ExInFlight
    \/ \E l \in LayerIds : pu[l].st \in {"waiting"} \cup PuInFlight

\* C9: the promise of processCycles settles only after every cycle task
\* with all its downloads, extractions and uploads settled, also when a
\* cycle task rejects.
C9_SettlesLast ==
    top \notin {"start", "cycles"} => ~CycleWorkPending

\* C10: a decoder failure of one layer, and nothing else failing, leaves
\* the extractLayer and pushLayer of every other layer attempted by the end
\* of the run.
C10_FailureIsolated ==
    (/\ Exited
     /\ top # "crashed"
     /\ \E l \in LayerIds : ex[l].out.code > 0
     /\ \A p \in ProdIds : dl[p].st \in {"existed", "fetched"}
     /\ \A l \in LayerIds : pu[l].st # "rejected")
    => \A k \in LayerIds :
        ex[k].out.code <= 0 => ex[k].st \in ExSettled /\ pu[k].st \in PuSettled

\* the cycles of the grid within the window
GridCycles ==
    { c \in Cycle(cfg.until)..Cycle(cfg.from) : c % CyclePeriod = 0 }

DistinctForecasts ==
    \A j, k \in 1..Len(cfg.forecasts) : cfg.forecasts[j] = cfg.forecasts[k] => j = k

\* no external failure happened
NoFailures == faults = cfg.budget

\* C11: processCycles starts exactly one cycle task for each cycle c of the
\* grid with cycle(until) <= c <= cycle(from) and none for another cycle;
\* with distinct forecasts and no failures, by the end of the run download
\* was called exactly once per product of these cycles and extractLayer and
\* pushLayer exactly once per recipe and product.
C11_ExactlyOnce ==
    top # "start" =>
        /\ \A i \in 1..NCycles : cyc[i] # "none" /\ CycleSeq[i] \in GridCycles
        /\ \A c \in GridCycles :
            Cardinality({ i \in 1..NCycles : CycleSeq[i] = c }) = 1
        /\ (DistinctForecasts /\ NoFailures /\ Exited) =>
            /\ \A c \in GridCycles, j \in 1..Len(cfg.forecasts) :
                Cardinality({ p \in ProdIds :
                    /\ Prod(p) = <<c, cfg.forecasts[j]>>
                    /\ dl[p].st \in {"existed", "fetched"} }) = 1
            /\ \A c \in GridCycles, j \in 1..Len(cfg.forecasts), r \in Recipes :
                Cardinality({ l \in LayerIds :
                    /\ LayerProduct(l) = <<c, cfg.forecasts[j]>>
                    /\ l[3] = r
                    /\ ex[l].st \in ExLayer
                    /\ pu[l].st \in {"unchanged", "uploaded"} }) = 1

\* a run over three cycles ended with everything fetched and published
C11_Witness ==
    /\ top = "done"
    /\ Exited
    /\ Cardinality(GridCycles) = 3
    /\ cfg.from # Cycle(cfg.from)
    /\ NoFailures
    /\ \A l \in LayerIds : pu[l].st = "uploaded"

\* nothing waits for a slot and every slot was given back
ThrottlesIdle ==
    /\ \A p \in ProdIds : dl[p].st # "waiting"
    /\ \A l \in LayerIds : ex[l].st # "waiting"
    /\ \A l \in PushIds : pu[l].st # "waiting"
    /\ gDl = NewGuard
    /\ gEx = NewGuard
    /\ gPu = NewGuard

\* the top-level chain settled and no work of the run is left
Settled ==
    /\ top \in {"done", "reported"}
    /\ ~InternalPending
    /\ ~IOPending
    /\ ThrottlesIdle

\* C12: with every handler that is ready run and every external operation
\* completing, every run reaches full settlement: the top-level chain
\* settles, no call is left waiting for a slot or in flight, and every
\* slot of the three throttles was given back.
C12_FullSettlement ==
    \A n \in 1..MaxRuns : (run = n /\ top = "start") ~> (run = n /\ Settled)

\* no layer file for a validity time from now minus three days to now
NoRecentLayer ==
    \A path \in Paths :
        (~path.current /\ LayerExists(path)) =>
            path.v > cfg.now \/ path.v < cfg.now - ThreeDays

\* C13: when copyCurrent is called and no layer file exists for a validity
\* time from now minus three days to now, it returns at once: the chain is
\* done without failure, no alias file was created, replaced or deleted, no
\* copy was started and no pushLayer called, then or later in the run.
C13_Exhaustion ==
    /\ [][(top = "cycles" /\ top' # "cycles" /\ AllCyclesFulfilled /\ NoRecentLayer)
            => /\ top' = "done"
               /\ layerFile' = layerFile
               /\ cp' = cp
               /\ pu' = pu]_vars
    /\ []((top = "done" /\ found = NoProduct)
            => /\ \A r \in Recipes : cp[r] = "none"
               /\ \A l \in AliasIds : pu[l].st = "none")

\* copyCurrent gave up where layers and alias files older than three days
\* are on disk
C13_Witness ==
    /\ top = "done"
    /\ found = NoProduct
    /\ NoRecentLayer
    /\ \E path \in Paths : ~path.current /\ LayerExists(path)
    /\ \A path \in Paths : path.current => LayerExists(path)

\* C14: whenever copyCurrent goes on to create the aliases of a product, a
\* layer file of that product that is not current exists for every recipe,
\* and no alias copy fails.
C14_Materialized ==
    found # NoProduct =>
        \A r \in Recipes : LayerExists(SrcPath(r)) /\ cp[r] # "error"

\* the validity times from now minus three days to now for which a wi1000
\* layer file exists
Candidates ==
    { path.v : path \in { q \in Paths :
        /\ ~q.current
        /\ q.recipe = wi1000
        /\ layerFile[q] # NoFile
        /\ q.v <= cfg.now
        /\ q.v >= cfg.now - ThreeDays } }

\* C15: the layer the search of copyCurrent stops on has the greatest
\* validity time t <= now with a layer file, provided t is not before now
\* minus three days: no existing layer with a later validity time <= now is
\* passed over, none after now or before now minus three days is selected,
\* and the search gives up exactly when there is no such layer.
C15_MostRecent ==
    [][(top = "cycles" /\ top' \in {"current", "done"}) =>
        IF Candidates = {} THEN top' = "done" /\ found' = NoProduct
        ELSE /\ top' = "current"
             /\ ProductDate(found') \in Candidates
             /\ \A t \in Candidates : t <= ProductDate(found')]_vars

\* the search stepped back to a layer dated exactly three days before now
C15_Witness ==
    /\ top = "current"
    /\ ProductDate(found) = cfg.now - ThreeDays
    /\ Candidates = {cfg.now - ThreeDays}

\* the downloads that hold a server
HoldsServer(p) == dl[p].st \in {"delay", "transfer"}

\* C16: no two downloads in flight hold the same server, and nextServer is
\* never called with the pool empty, after any sequence of outcomes.
C16_DistinctHosts ==
    /\ \A p, q \in ProdIds :
        (p # q /\ HoldsServer(p) /\ HoldsServer(q)) => dl[p].server # dl[q].server
    /\ \A p \in ProdIds :
        (dl[p].st = "admitted" /\ ~ProductExists(Prod(p))) => Len(servers) > 0

\* C17: a file exists at a product's path only if it was there before the
\* first run or a download of the product completed its transfer with a
\* status below 300, and the files change only in the step that completes
\* such a transfer: a download in progress, one that got a status >= 300
\* and one that hit a transport error leave them as they are.
C17_FileOnlyOnSuccess ==
    /\ [](\A prod \in grib : cfg.preGrib \/ fetched[prod] = "ok")
    /\ [][grib' # grib =>
            \E p \in ProdIds :
                /\ dl[p].st = "transfer"
                /\ dl'[p].st = "fetched"
                /\ grib' = grib \cup {Prod(p)}]_vars

\* one product's download failed and left no file, another's succeeded
C17_Witness ==
    \E p, q \in ProdIds :
        /\ dl[p].st \in {"failed", "rejected"}
        /\ Prod(p) \notin grib
        /\ dl[q].st = "fetched"
        /\ Prod(q) \in grib

\* C18: the reference time in the layer file at a dated path never
\* decreases: no extractLayer for an older cycle writes over the file an
\* extractLayer for a newer cycle wrote.
C18_RefNeverDecreases ==
    [][\A path \in Paths :
        ~path.current => layerFile'[path].ref >= layerFile[path].ref]_vars

\* C19: every upload pushLayer made for a layer that is not current tagged
\* the object with the reference time that is in the content uploaded.
C19_TagMatchesContent ==
    \A u \in putLog : ~u.key.current => u.tag = u.body.ref

\* copyCurrent was called in this run
ResolverStarted ==
    \/ top \in {"current", "done"}
    \/ found # NoProduct
    \/ \E r \in Recipes : cp[r] # "none"
    \/ \E l \in AliasIds : pu[l].st # "none"

\* C20: copyCurrent is called only when no download, extractLayer or
\* pushLayer of a cycle task is waiting or in flight, and pushLayer of an
\* alias layer is called only after the copy of its file finished.
C20_ResolverAfterCycles ==
    /\ ResolverStarted => ~CycleWorkPending
    /\ \A r \in Recipes :
        pu[<<0, 0, r>>].st # "none" =>
            /\ cp[r] = "done"
            /\ LayerExists(LayerPath(r, found, TRUE))

\* after two cycle tasks, one alias is being uploaded while the copy of
\* another is still being written
C20_Witness ==
    /\ NCycles = 2
    /\ \E r, q \in Recipes :
        /\ pu[<<0, 0, r>>].st = "put"
        /\ cp[q] = "copying"

====
